---- MODULE Spec2Model ----
(***************************************************************************)
(* PongRank: the client data service (services/dataService.ts), the match  *)
(* history display (MatchHistory) and the rating computation of the Apps   *)
(* Script backend (backend/appscript.js), as a state machine over the      *)
(* client cache.                                                           *)
(*                                                                         *)
(* Representation.                                                         *)
(*  - A player id held in the cache is a string (fetchData applies String  *)
(*    to it).  An id stored inside a match record is a raw spreadsheet     *)
(*    value: [num |-> TRUE, s |-> "7"] is the number 7 and                 *)
(*    [num |-> FALSE, s |-> "7"] the string "7"; String(x) is x.s, and ===  *)
(*    is equality of the raw values.                                       *)
(*  - A match id is a raw value whose text is a sequence of characters,    *)
(*    each character given by its rank in the collation order that         *)
(*    localeCompare uses (digits in increasing order, then letters).       *)
(*  - winnerIds and loserIds of a cached match are lists (fetchData        *)
(*    replaces anything else by []).  teamAIds and teamBIds are not        *)
(*    cleaned: each is [kind |-> "none"] (the field is absent),            *)
(*    [kind |-> "list", v |-> <<ids>>] or [kind |-> "str", v |-> <<chars>>] *)
(*    (a cell that JSON.parse could not parse, kept as a string).          *)
(*  - The date of a match is written by logMatch and read only for display;*)
(*    no operation modelled here reads it, and it is left out.             *)
(***************************************************************************)
EXTENDS Integers, Sequences, FiniteSets, TLC

VARIABLES
    cachedPlayers,   \* dataService.ts: let cachedPlayers: Player[]
    cachedMatches,   \* dataService.ts: let cachedMatches: Match[]
    API_URL,         \* dataService.ts: let API_URL
    sheetPlayers,    \* appscript.js: the rows of the Players sheet, as parseData reads them
    sheetMatches,    \* appscript.js: the rows of the Matches sheet, as parseData reads them
    pending,         \* the invocations of the service that are at an await
    screen,          \* LogMatch: the state of the component
    last             \* history: the last operation, its arguments and the cache before it

vars == <<cachedPlayers, cachedMatches, API_URL, sheetPlayers, sheetMatches,
          pending, screen, last>>

----------------------------------------------------------------------------
(* Program constants *)

BaseElo == 1200
K == 32

(* Bounds of the model *)

MaxMatches == 2

----------------------------------------------------------------------------
(* Sequence helpers (Array.prototype.map / filter / reduce / includes) *)

RECURSIVE Sum(_)
Sum(s) == IF s = << >> THEN 0 ELSE Head(s) + Sum(Tail(s))

Range(s) == {s[i] : i \in 1..Len(s)}

Str(x) == [num |-> FALSE, s |-> x]
Num(x) == [num |-> TRUE, s |-> x]

\* String(id)
String(raw) == raw.s

\* ids.map(String)
MapString(ids) == [i \in 1..Len(ids) |-> String(ids[i])]

\* ids.includes(pid) for a cached player id pid (a string): strict equality
Includes(ids, pid) == \E i \in 1..Len(ids) : ids[i] = Str(pid)

Elos(ps) == [i \in 1..Len(ps) |-> ps[i].elo]

----------------------------------------------------------------------------
(* Rating computation                                                      *)
(*                                                                         *)
(*   avgWinnerElo = sum(winners.elo) / winners.length                      *)
(*   avgLoserElo  = sum(losers.elo) / losers.length                        *)
(*   expectedWin  = 1 / (1 + 10 ^ ((avgLoserElo - avgWinnerElo) / 400))    *)
(*   eloChange    = Math.round(32 * (1 - expectedWin))                     *)
(*                                                                         *)
(* Math.round rounds half up, so eloChange >= k exactly when               *)
(* 32 * (1 - expectedWin) >= k - 1/2, that is when                         *)
(*   avgLoserElo - avgWinnerElo >= 400 * log10((2k - 1) / (65 - 2k)).      *)
(* The right-hand side is irrational for every k in 1..32, and the         *)
(* difference of the averages of groups of at most 4 integer ratings is a  *)
(* multiple of 1/144.  RoundUpAt[k] is the least integer n with            *)
(* n / 144 >= 400 * log10((2k - 1) / (65 - 2k)); eloChange is the number   *)
(* of k whose threshold the scaled difference has reached.  (The table     *)
(* agrees with the floating point evaluation of the source expression on   *)
(* every multiple of 1/144 in [-1200, 1200].)                              *)

RoundUpAt ==
    << -103642, -75352, -61740, -52460, -45280, -39334, -34192, -29612,
       -25438, -21568, -17927, -14460, -11123, -7881, -4704, -1563,
       1564, 4705, 7882, 11124, 14461, 17928, 21569, 25439,
       29613, 34193, 39335, 45281, 52461, 61741, 75353, 103643 >>

\* 144 * (avgLoserElo - avgWinnerElo), for groups of 1..4 ratings
ScaledDiff(winnerElos, loserElos) ==
    (Sum(loserElos) * Len(winnerElos) - Sum(winnerElos) * Len(loserElos))
        * (144 \div (Len(winnerElos) * Len(loserElos)))

\* Faulty variant: the K-factor doubled
EloChangeDoubleK(winnerElos, loserElos) ==
    2 * Cardinality({k \in 1..K : ScaledDiff(winnerElos, loserElos) >= RoundUpAt[k]})

\* Faulty variant: the ratings of a group summed and not averaged
EloChangeNoAverage(winnerElos, loserElos) ==
    Cardinality({k \in 1..K : 144 * (Sum(loserElos) - Sum(winnerElos)) >= RoundUpAt[k]})

\* Faulty variant: the expected score of the losers taken for that of the winners
EloChangeSwapped(winnerElos, loserElos) ==
    Cardinality({k \in 1..K : ScaledDiff(loserElos, winnerElos) >= RoundUpAt[k]})

EloChange(winnerElos, loserElos) ==
    Cardinality({k \in 1..K : ScaledDiff(winnerElos, loserElos) >= RoundUpAt[k]})

\* eloUtils.calculateEloChange(winnerElos, loserElos)
calculateEloChange(winnerElos, loserElos) == EloChange(winnerElos, loserElos)

\* eloUtils.getNewPlayerStats(player, isWinner, eloChange)
getNewPlayerStats(p, isWinner, eloChange) ==
    IF isWinner
    THEN [p EXCEPT !.elo = p.elo + eloChange, !.wins = p.wins + 1]
    ELSE [p EXCEPT !.elo = p.elo - eloChange, !.losses = p.losses + 1]

----------------------------------------------------------------------------
(* Records *)

Player(id, elo, wins, losses) ==
    [id |-> id, name |-> id, elo |-> elo, wins |-> wins, losses |-> losses,
     createdAt |-> "t0"]

NoField == [kind |-> "none"]
ListField(ids) == [kind |-> "list", v |-> ids]
StrField(chars) == [kind |-> "str", v |-> chars]

\* The record logMatch builds: no team fields
NewMatch(id, type, winnerIds, loserIds, score, eloChange) ==
    [id |-> id, type |-> type, winnerIds |-> winnerIds, loserIds |-> loserIds,
     score |-> score, eloChange |-> eloChange,
     teamAIds |-> NoField, teamBIds |-> NoField, winnerTeam |-> "none"]

----------------------------------------------------------------------------
(* logMatch *)

\* Faulty variant: the losers left as they were
logMatchResultLosersKept(players, type, winnerIds, loserIds, score, newId) ==
    LET winners == SelectSeq(players, LAMBDA p : Includes(winnerIds, p.id))
        losers == SelectSeq(players, LAMBDA p : Includes(loserIds, p.id))
    IN  IF Len(winners) = 0 \/ Len(losers) = 0
        THEN [ok |-> FALSE, error |-> "Invalid players selected"]
        ELSE LET eloChange == calculateEloChange(Elos(winners), Elos(losers))
                 updatedPlayers ==
                     [i \in 1..Len(players) |->
                         IF Includes(winnerIds, players[i].id)
                         THEN getNewPlayerStats(players[i], TRUE, eloChange)
                         ELSE players[i]]
             IN  [ok |-> TRUE,
                  match |-> NewMatch(newId, type, winnerIds, loserIds, score, eloChange),
                  players |-> updatedPlayers]

\* Steps 1-4 of logMatch on the snapshot: the thrown error, or the new match
\* and the updated player list
logMatchResult(players, type, winnerIds, loserIds, score, newId) ==
    LET winners == SelectSeq(players, LAMBDA p : Includes(winnerIds, p.id))
        losers == SelectSeq(players, LAMBDA p : Includes(loserIds, p.id))
    IN  IF Len(winners) = 0 \/ Len(losers) = 0
        THEN [ok |-> FALSE, error |-> "Invalid players selected"]
        ELSE LET eloChange == calculateEloChange(Elos(winners), Elos(losers))
                 updatedPlayers ==
                     [i \in 1..Len(players) |->
                         IF Includes(winnerIds, players[i].id)
                         THEN getNewPlayerStats(players[i], TRUE, eloChange)
                         ELSE IF Includes(loserIds, players[i].id)
                         THEN getNewPlayerStats(players[i], FALSE, eloChange)
                         ELSE players[i]]
             IN  [ok |-> TRUE,
                  match |-> NewMatch(newId, type, winnerIds, loserIds, score, eloChange),
                  players |-> updatedPlayers]

----------------------------------------------------------------------------
(* The backend: the two sheets and the handlers of doPost                  *)
(*                                                                         *)
(* A row is held as parseData reads it back: a number cell is              *)
(* [t |-> "number", v |-> n], a text cell [t |-> "string", v |-> s]; a     *)
(* cell holding the JSON of a list is a list field; the id cell of a       *)
(* player is a raw id, a number when its text is all digits (JSON.parse    *)
(* reads it as one).  The id of a match written by the client is a UUID,   *)
(* which is not JSON and stays the string it was.                          *)

\* v is the number of a number cell, s the text of a text cell
NumCell(n) == [t |-> "number", v |-> n, s |-> ""]
TextCell(s) == [t |-> "string", v |-> 0, s |-> s]

\* The player ids of the model are texts of digits
DigitTexts == {"1", "2", "3", "4", "9"}

\* JSON.parse of the id cell of a player, the text itself when that fails
parseIdCell(s) == IF s \in DigitTexts THEN Num(s) ELSE Str(s)

\* The row handleAddPlayer and handleUpdatePlayer write for a player
playerRow(p) ==
    [id |-> parseIdCell(p.id), name |-> p.name, elo |-> NumCell(p.elo),
     wins |-> NumCell(p.wins), losses |-> NumCell(p.losses),
     createdAt |-> p.createdAt]

\* The row handleAddMatch writes for a match
matchRow(m) ==
    [id |-> m.id, type |-> m.type,
     winnerIds |-> ListField(m.winnerIds), loserIds |-> ListField(m.loserIds),
     score |-> m.score, eloChange |-> NumCell(m.eloChange),
     teamAIds |-> m.teamAIds, teamBIds |-> m.teamBIds, winnerTeam |-> m.winnerTeam]

playerRows(players) == [i \in 1..Len(players) |-> playerRow(players[i])]
matchRows(matches) == [i \in 1..Len(matches) |-> matchRow(matches[i])]

\* The places of the rows whose id has the text
RowsWithId(rows, text) == {i \in 1..Len(rows) : String(rows[i].id) = text}

handleAddPlayer(sheet, player) ==
    [sheet |-> [sheet EXCEPT !.players = Append(@, playerRow(player))],
     status |-> "success"]

handleAddMatch(sheet, match) ==
    [sheet |-> [sheet EXCEPT !.matches = Append(@, matchRow(match))],
     status |-> "success"]

\* The last row with the id is deleted
handleDeleteMatch(sheet, matchId) ==
    LET hits == RowsWithId(sheet.matches, String(matchId))
    IN  IF hits = {}
        THEN [sheet |-> sheet, status |-> "error"]
        ELSE LET i == CHOOSE k \in hits : \A j \in hits : j <= k
             IN  [sheet |-> [sheet EXCEPT !.matches =
                                SubSeq(@, 1, i - 1) \o SubSeq(@, i + 1, Len(@))],
                  status |-> "success"]

\* The first row with the id is rewritten
handleUpdatePlayer(sheet, player) ==
    LET hits == RowsWithId(sheet.players, player.id)
    IN  IF hits = {}
        THEN [sheet |-> sheet, status |-> "error"]
        ELSE LET i == CHOOSE k \in hits : \A j \in hits : k <= j
             IN  [sheet |-> [sheet EXCEPT !.players[i] = playerRow(player)],
                  status |-> "success"]

doPost(sheet, body) ==
    CASE body.action = "addPlayer" -> handleAddPlayer(sheet, body.player)
      [] body.action = "addMatch" -> handleAddMatch(sheet, body.match)
      [] body.action = "deleteMatch" -> handleDeleteMatch(sheet, body.matchId)
      [] body.action = "updatePlayer" -> handleUpdatePlayer(sheet, body.player)

----------------------------------------------------------------------------
(* apiCall *)

\* What one awaited apiCall comes to: the handler runs and the backend answers
\* with its status ("success"); an exception in the script is caught by doPost,
\* which answers {status: 'error'} with the sheets as they were ("error";
\* apiCall returns the body and does not read it); or the promise rejects
\* with the request not served (fetch fails)
Responses == {"success", "error", "reject"}

\* One apiCall(body) against the sheets: the sheets after it and what the
\* caller gets
apiCall(sheet, body, resp) ==
    IF resp = "success"
    THEN LET r == doPost(sheet, body)
         IN  [sheet |-> r.sheet, resp |-> r.status]
    ELSE [sheet |-> sheet, resp |-> resp]

\* The apiCalls a caller awaits one after the other, from the one after those
\* done: it stops at the first that rejects.  resps[k] is what the k-th call
\* comes to.
RECURSIVE awaitAll(_, _, _, _)
awaitAll(sheet, requests, resps, done) ==
    IF Len(done) = Len(requests) THEN [sheet |-> sheet, writes |-> done]
    ELSE LET k == Len(done) + 1
             r == apiCall(sheet, requests[k], resps[k])
             writes == Append(done, [action |-> requests[k].action, resp |-> r.resp])
         IN  IF r.resp = "reject" THEN [sheet |-> sheet, writes |-> writes]
             ELSE awaitAll(r.sheet, requests, resps, writes)

\* Faulty variant: the requests are sent whether or not API_URL is set
issuedUnconfigured(requests, resps) ==
    LET r == awaitAll([players |-> sheetPlayers, matches |-> sheetMatches],
                      requests, resps, << >>)
    IN  [sheet |-> r.sheet, writes |-> r.writes,
         threw |-> \E k \in 1..Len(r.writes) : r.writes[k].resp = "reject"]

\* The requests an operation awaits, run to the end with no other operation
\* in between: with no API URL the first apiCall throws and nothing is sent
issued(requests, resps) ==
    IF API_URL = ""
    THEN [sheet |-> [players |-> sheetPlayers, matches |-> sheetMatches],
          writes |-> << >>, threw |-> requests # << >>]
    ELSE LET r == awaitAll([players |-> sheetPlayers, matches |-> sheetMatches],
                           requests, resps, << >>)
         IN  [sheet |-> r.sheet, writes |-> r.writes,
              threw |-> \E k \in 1..Len(r.writes) : r.writes[k].resp = "reject"]

\* Steps 5 and 6 of logMatch: addMatch, then updatePlayers(playersToUpdate)
logMatchRequests(newMatch, updatedPlayers, winnerIds, loserIds) ==
    LET playersToUpdate ==
            SelectSeq(updatedPlayers,
                      LAMBDA p : Includes(winnerIds, p.id) \/ Includes(loserIds, p.id))
    IN  <<[action |-> "addMatch", match |-> newMatch]>>
            \o [i \in 1..Len(playersToUpdate) |->
                   [action |-> "updatePlayer", player |-> playersToUpdate[i]]]

\* logMatch(type, winnerIds, loserIds, score), run with no other operation in
\* between; newId is the crypto.randomUUID() drawn, resps what the awaited
\* apiCalls come to
logMatch(type, winnerIds, loserIds, score, newId, resps) ==
    \E r \in {logMatchResult(cachedPlayers, type, winnerIds, loserIds, score, newId)} :
    \E w \in {issued(IF r.ok
                      THEN logMatchRequests(r.match, r.players, winnerIds, loserIds)
                      ELSE << >>, resps)} :
        LET call == [type |-> type, winnerIds |-> winnerIds, loserIds |-> loserIds,
                     score |-> score]
            ok == r.ok /\ ~w.threw
        IN  /\ IF ok
               THEN /\ cachedMatches' = Append(cachedMatches, r.match)
                    /\ cachedPlayers' = r.players
               ELSE UNCHANGED <<cachedPlayers, cachedMatches>>
            /\ sheetPlayers' = w.sheet.players
            /\ sheetMatches' = w.sheet.matches
            /\ UNCHANGED <<API_URL, pending, screen>>
            /\ last' = [op |-> "logMatch", ok |-> ok, call |-> call,
                        error |-> IF r.ok THEN "none" ELSE r.error,
                        writes |-> w.writes,
                        prePlayers |-> cachedPlayers, preMatches |-> cachedMatches]

----------------------------------------------------------------------------
(* deleteMatch *)

\* Faulty variant: the record deleted and every record after it
deleteMatchTruncating(matchId, resp) ==
    LET w == issued(<<[action |-> "deleteMatch", matchId |-> matchId]>>, <<resp>>)
        ok == ~w.threw
        hits == {i \in 1..Len(cachedMatches) : cachedMatches[i].id = matchId}
        first == IF hits = {} THEN Len(cachedMatches) + 1
                 ELSE CHOOSE i \in hits : \A j \in hits : i <= j
    IN  /\ cachedMatches' = IF ok THEN SubSeq(cachedMatches, 1, first - 1)
                            ELSE cachedMatches
        /\ sheetPlayers' = w.sheet.players
        /\ sheetMatches' = w.sheet.matches
        /\ UNCHANGED <<cachedPlayers, API_URL, pending, screen>>
        /\ last' = [op |-> "deleteMatch", ok |-> ok, matchId |-> matchId,
                    writes |-> w.writes,
                    prePlayers |-> cachedPlayers, preMatches |-> cachedMatches]

\* deleteMatch(matchId); resp is what the awaited apiCall comes to
deleteMatch(matchId, resp) ==
    LET w == issued(<<[action |-> "deleteMatch", matchId |-> matchId]>>, <<resp>>)
        ok == ~w.threw
    IN  /\ cachedMatches' = IF ok
                            THEN SelectSeq(cachedMatches, LAMBDA m : m.id # matchId)
                            ELSE cachedMatches
        /\ sheetPlayers' = w.sheet.players
        /\ sheetMatches' = w.sheet.matches
        /\ UNCHANGED <<cachedPlayers, API_URL, pending, screen>>
        /\ last' = [op |-> "deleteMatch", ok |-> ok, matchId |-> matchId,
                    writes |-> w.writes,
                    prePlayers |-> cachedPlayers, preMatches |-> cachedMatches]

----------------------------------------------------------------------------
(* recalculateAllStats *)

\* Faulty variant: the rating reset, the counters kept
resetPlayersKeepCounters(players) ==
    [i \in 1..Len(players) |-> [players[i] EXCEPT !.elo = BaseElo]]

\* Step 1: every player reset to the base stats
resetPlayers(players) ==
    [i \in 1..Len(players) |->
        [players[i] EXCEPT !.elo = BaseElo, !.wins = 0, !.losses = 0]]

\* Step 2: new Map keyed by id, in insertion order: a repeated id keeps the
\* place of its first entry and the value of its last
playerMapOf(players) ==
    LET firsts == SelectSeq([i \in 1..Len(players) |-> i],
                            LAMBDA i : \A j \in 1..(i - 1) : players[j].id # players[i].id)
        lastIdx(id) == CHOOSE i \in 1..Len(players) :
                           /\ players[i].id = id
                           /\ \A j \in (i + 1)..Len(players) : players[j].id # id
    IN  [k \in 1..Len(firsts) |-> players[lastIdx(players[firsts[k]].id)]]

\* a.localeCompare(b) < 0, on texts given as sequences of collation ranks
RECURSIVE ComesBefore(_, _)
ComesBefore(a, b) ==
    IF a = << >> THEN b # << >>
    ELSE IF b = << >> THEN FALSE
    ELSE IF a[1] # b[1] THEN a[1] < b[1]
    ELSE ComesBefore(Tail(a), Tail(b))

localeCompare(a, b) == IF a = b THEN 0 ELSE IF ComesBefore(a, b) THEN -1 ELSE 1

\* The comparator of step 3
compareById(a, b) == localeCompare(String(a.id), String(b.id))

\* Array.prototype.sort is stable: m goes after every element that does not
\* compare greater than it
insertSorted(sorted, m) ==
    LET k == Cardinality({i \in 1..Len(sorted) : compareById(sorted[i], m) <= 0})
    IN  SubSeq(sorted, 1, k) \o <<m>> \o SubSeq(sorted, k + 1, Len(sorted))

RECURSIVE sortFrom(_, _)
sortFrom(sorted, rest) ==
    IF rest = << >> THEN sorted
    ELSE sortFrom(insertSorted(sorted, Head(rest)), Tail(rest))

\* Faulty variant: the matches replayed in the order the cache holds them
sortedMatchesUnsorted(matches) == matches

\* Step 3: [...cachedMatches].sort(by id)
sortedMatches(matches) == sortFrom(<< >>, matches)

\* x?.length is truthy
HasLength(f) == f.kind # "none" /\ Len(f.v) > 0

\* Step 4, first half: the winner and loser ids of a record, "skip" for the
\* continue, "throw" for the TypeError of .map on a value that is not a list
normalizeForReplay(m) ==
    IF Len(m.winnerIds) > 0 /\ Len(m.loserIds) > 0
    THEN [tag |-> "ok", winnerIds |-> MapString(m.winnerIds),
          loserIds |-> MapString(m.loserIds)]
    ELSE IF HasLength(m.teamAIds) /\ HasLength(m.teamBIds)
    THEN IF m.teamAIds.kind # "list" \/ m.teamBIds.kind # "list"
         THEN [tag |-> "throw", winnerIds |-> << >>, loserIds |-> << >>]
         ELSE IF m.winnerTeam = "A"
         THEN [tag |-> "ok", winnerIds |-> MapString(m.teamAIds.v),
               loserIds |-> MapString(m.teamBIds.v)]
         ELSE [tag |-> "ok", winnerIds |-> MapString(m.teamBIds.v),
               loserIds |-> MapString(m.teamAIds.v)]
    ELSE [tag |-> "skip", winnerIds |-> << >>, loserIds |-> << >>]

\* playerMap.has(id)
Has(playerMap, id) == \E i \in 1..Len(playerMap) : playerMap[i].id = id

\* playerMap.get(id), for an id the map has
Get(playerMap, id) == playerMap[CHOOSE i \in 1..Len(playerMap) : playerMap[i].id = id]

\* ids.map(id => playerMap.get(id)).filter(Boolean)
resolve(playerMap, ids) ==
    LET found == SelectSeq(ids, LAMBDA id : Has(playerMap, id))
    IN  [i \in 1..Len(found) |-> Get(playerMap, found[i])]

\* The number of entries of ids equal to id
Occurrences(ids, id) == Cardinality({i \in 1..Len(ids) : ids[i] = id})

\* Faulty variant: every match replayed from the base rating of its players
replayChangeFromBase(winners, losers) ==
    calculateEloChange([i \in 1..Len(winners) |-> BaseElo],
                       [i \in 1..Len(losers) |-> BaseElo])

\* The rating change of one replayed match
replayChange(winners, losers) ==
    calculateEloChange(Elos(winners), Elos(losers))

\* Faulty variant: every player the match does not list as a winner updated as
\* a loser
applyMatchToAll(playerMap, winnerIds, loserIds, eloChange) ==
    [i \in 1..Len(playerMap) |->
        LET p == playerMap[i]
            w == Occurrences(winnerIds, p.id)
            l == IF w = 0 THEN 1 ELSE Occurrences(loserIds, p.id)
        IN  [p EXCEPT !.elo = p.elo + w * eloChange - l * eloChange,
                      !.wins = p.wins + w,
                      !.losses = p.losses + l]]

\* The two forEach loops: one update per entry of each list
applyMatch(playerMap, winnerIds, loserIds, eloChange) ==
    [i \in 1..Len(playerMap) |->
        LET p == playerMap[i]
            w == Occurrences(winnerIds, p.id)
            l == Occurrences(loserIds, p.id)
        IN  [p EXCEPT !.elo = p.elo + w * eloChange - l * eloChange,
                      !.wins = p.wins + w,
                      !.losses = p.losses + l]]

\* Step 4: the body of the replay loop for a record that does not throw
replayMatch(playerMap, m) ==
    LET n == normalizeForReplay(m)
        winners == resolve(playerMap, n.winnerIds)
        losers == resolve(playerMap, n.loserIds)
    IN  IF n.tag # "ok" THEN playerMap
        ELSE IF Len(winners) = 0 \/ Len(losers) = 0 THEN playerMap
        ELSE applyMatch(playerMap, n.winnerIds, n.loserIds,
                        replayChange(winners, losers))

RECURSIVE replayAll(_, _)
replayAll(playerMap, matches) ==
    IF matches = << >> THEN playerMap
    ELSE replayAll(replayMatch(playerMap, Head(matches)), Tail(matches))

\* The replay raises when it meets a record whose normalization throws
replayThrows(matches) ==
    \E i \in 1..Len(matches) : normalizeForReplay(matches[i]).tag = "throw"

\* Faulty variant: the replay started from the stored stats
recalculateNoReset(players, matches) ==
    replayAll(playerMapOf(players), sortedMatches(matches))

\* Steps 1-4: Array.from(playerMap.values()) after the replay
recalculate(players, matches) ==
    replayAll(playerMapOf(resetPlayers(players)), sortedMatches(matches))

\* Step 5: updatePlayers(updatedPlayers)
recalculateRequests(updatedPlayers) ==
    [i \in 1..Len(updatedPlayers) |->
        [action |-> "updatePlayer", player |-> updatedPlayers[i]]]

\* recalculateAllStats(), run with no other operation in between; resps is
\* what the awaited apiCalls come to
recalculateAllStats(resps) ==
    LET threw == replayThrows(cachedMatches)
    IN  \E updatedPlayers \in {IF threw THEN << >>
                                ELSE recalculate(cachedPlayers, cachedMatches)} :
        \E w \in {issued(recalculateRequests(updatedPlayers), resps)} :
            LET ok == ~threw /\ ~w.threw
            IN  /\ cachedPlayers' = IF ok THEN updatedPlayers ELSE cachedPlayers
                /\ sheetPlayers' = w.sheet.players
                /\ sheetMatches' = w.sheet.matches
                /\ UNCHANGED <<cachedMatches, API_URL, pending, screen>>
                /\ last' = [op |-> "recalculateAllStats", ok |-> ok, threw |-> threw,
                            writes |-> w.writes,
                            prePlayers |-> cachedPlayers, preMatches |-> cachedMatches]

----------------------------------------------------------------------------
(* fetchData and addPlayer *)

\* setApiUrl(url)
setApiUrl(url) ==
    /\ API_URL' = url
    /\ UNCHANGED <<cachedPlayers, cachedMatches, sheetPlayers, sheetMatches,
                   pending, screen>>
    /\ last' = [op |-> "setApiUrl", ok |-> TRUE]

\* doGet: the body of the response to ?action=getData
doGet(sheet) ==
    [players |-> [kind |-> "list", v |-> sheet.players],
     matches |-> [kind |-> "list", v |-> sheet.matches]]

\* typeof x === 'number' ? x : Number(x) || dflt, for a cell that is a number
\* or a text that is not the text of a non-zero number
numberOr(cell, dflt) == IF cell.t = "number" THEN cell.v ELSE dflt

\* The player fetchData makes of a row
cleanPlayer(p) ==
    [id |-> String(p.id), name |-> p.name,
     elo |-> numberOr(p.elo, BaseElo), wins |-> numberOr(p.wins, 0),
     losses |-> numberOr(p.losses, 0), createdAt |-> p.createdAt]

\* Array.isArray(x) ? x : []
arrayOrEmpty(f) == IF f.kind = "list" THEN f.v ELSE << >>

\* The match fetchData makes of a row: the id and the ids of the lists are
\* left as they are
cleanMatch(m) ==
    [id |-> m.id, type |-> m.type,
     winnerIds |-> arrayOrEmpty(m.winnerIds), loserIds |-> arrayOrEmpty(m.loserIds),
     score |-> m.score, eloChange |-> numberOr(m.eloChange, 0),
     teamAIds |-> m.teamAIds, teamBIds |-> m.teamBIds, winnerTeam |-> m.winnerTeam]

validPlayers(data) ==
    IF data.players.kind = "list"
    THEN [i \in 1..Len(data.players.v) |-> cleanPlayer(data.players.v[i])]
    ELSE << >>

validMatches(data) ==
    IF data.matches.kind = "list"
    THEN [i \in 1..Len(data.matches.v) |-> cleanMatch(data.matches.v[i])]
    ELSE << >>

\* fetchData(); data is the body of the response, resp "success" when the
\* response is OK and its body is JSON, "error" when it is not OK, "reject"
\* when fetch or res.json() rejects
fetchData(data, resp) ==
    LET sent == API_URL # ""
        ok == sent /\ resp = "success"
    IN  /\ cachedPlayers' = IF ok THEN validPlayers(data) ELSE cachedPlayers
        /\ cachedMatches' = IF ok THEN validMatches(data) ELSE cachedMatches
        /\ UNCHANGED <<API_URL, sheetPlayers, sheetMatches, pending, screen>>
        /\ last' = [op |-> "fetchData", ok |-> ok, data |-> data,
                    writes |-> IF sent THEN <<[action |-> "getData", resp |-> resp]>>
                               ELSE << >>,
                    prePlayers |-> cachedPlayers, preMatches |-> cachedMatches]

\* addPlayer(name); newId is the crypto.randomUUID() drawn, resp what the
\* awaited apiCall comes to
addPlayer(name, newId, resp) ==
    LET newPlayer == [id |-> newId, name |-> name, elo |-> BaseElo, wins |-> 0,
                      losses |-> 0, createdAt |-> "t1"]
    IN  \E w \in {issued(<<[action |-> "addPlayer", player |-> newPlayer]>>, <<resp>>)} :
            /\ cachedPlayers' = IF w.threw THEN cachedPlayers
                                ELSE Append(cachedPlayers, newPlayer)
            /\ sheetPlayers' = w.sheet.players
            /\ sheetMatches' = w.sheet.matches
            /\ UNCHANGED <<cachedMatches, API_URL, pending, screen>>
            /\ last' = [op |-> "addPlayer", ok |-> ~w.threw, name |-> name,
                        writes |-> w.writes,
                        prePlayers |-> cachedPlayers, preMatches |-> cachedMatches]

----------------------------------------------------------------------------
(* MatchHistory: the groups a match card shows *)

\* Array.isArray(x) ? x.map(String) : []
listOrEmpty(f) == IF f.kind = "list" THEN MapString(f.v) ELSE << >>

\* The winner and loser ids of a card, as getPlayerName reads them (String(id))
displayGroups(m) ==
    IF Len(m.winnerIds) > 0 /\ Len(m.loserIds) > 0
    THEN [winnerIds |-> MapString(m.winnerIds), loserIds |-> MapString(m.loserIds)]
    ELSE IF HasLength(m.teamAIds) /\ HasLength(m.teamBIds)
    THEN IF m.winnerTeam = "A"
         THEN [winnerIds |-> listOrEmpty(m.teamAIds), loserIds |-> listOrEmpty(m.teamBIds)]
         ELSE [winnerIds |-> listOrEmpty(m.teamBIds), loserIds |-> listOrEmpty(m.teamAIds)]
    ELSE [winnerIds |-> << >>, loserIds |-> << >>]

----------------------------------------------------------------------------
(* The rating computation applied once: the cache holds four players with  *)
(* ratings drawn from a grid, and one match is logged.                     *)

PlayerIds == <<"1", "2", "3", "4">>

RatingGrid == {1000, 1100, 1200, 1216, 1300, 2000}
PartnerGrid == {1100, 1200, 1300}

\* Lists of one or two distinct players
TeamLists ==
    {<<Str(PlayerIds[i])>> : i \in 1..4}
        \cup {<<Str(PlayerIds[ij[1]]), Str(PlayerIds[ij[2]])>> :
                 ij \in {x \in (1..4) \X (1..4) : x[1] # x[2]}}

MatchTypes == {"SINGLES", "DOUBLES"}

\* logMatch awaits one addMatch and at most one updatePlayer per cached player
MaxCalls == 1 + Len(PlayerIds)

\* Every awaited apiCall is answered with success
AllSucceed == [k \in 1..MaxCalls |-> "success"]

\* The URL of the deployed script
DeployedUrl == "https://script.google.com/macros/s/x/exec"

\* The component is not mounted
\* The state of the LogMatch component when it mounts
NewScreen ==
    [step |-> 1, matchType |-> "SINGLES", winnerIds |-> << >>, loserIds |-> << >>,
     score |-> << >>, error |-> "null", isSubmitting |-> FALSE]

\* The component is not mounted
NoScreen == [NewScreen EXCEPT !.step = 0]

\* The cache is what fetchData made of the sheets, no operation is at an await
\* and the LogMatch screen is not open
FetchedAndIdle ==
    /\ API_URL = DeployedUrl
    /\ sheetPlayers = playerRows(cachedPlayers)
    /\ sheetMatches = matchRows(cachedMatches)
    /\ pending = << >>
    /\ screen = NoScreen

InitElo ==
    /\ cachedPlayers \in
           {<<Player("1", e1, 0, 0), Player("2", e2, 0, 0),
              Player("3", e3, 0, 0), Player("4", e4, 0, 0)>> :
                e1 \in RatingGrid, e2 \in RatingGrid,
                e3 \in PartnerGrid, e4 \in PartnerGrid}
    /\ cachedMatches = << >>
    /\ FetchedAndIdle
    /\ last = [op |-> "none"]

LogOneMatch ==
    /\ cachedMatches = << >>
    /\ \E type \in MatchTypes, winnerIds \in TeamLists, loserIds \in TeamLists :
           logMatch(type, winnerIds, loserIds, "11-8", Str(<<1>>), AllSucceed)

NextElo == LogOneMatch

SpecElo == InitElo /\ [][NextElo]_vars

----------------------------------------------------------------------------
(* Recalculation applied to a fetched cache: four players, with fresh or   *)
(* stale stats, and a match log of records in both shapes, clean and       *)
(* messy.  Id "9" is the id of a player that no longer exists.             *)

FreshPlayers == [i \in 1..4 |-> Player(PlayerIds[i], BaseElo, 0, 0)]

StalePlayers ==
    <<Player("1", 1231, 2, 0), Player("2", 1169, 0, 2),
      Player("3", 1216, 1, 0), Player("4", 1200, 5, 5)>>

PlayerLists == {FreshPlayers, StalePlayers}

\* A record as fetchData leaves it in the cache, but for its id
Rec(winnerIds, loserIds, teamAIds, teamBIds, winnerTeam) ==
    [type |-> IF Len(winnerIds) = 2 \/ Len(loserIds) = 2
                    \/ (teamAIds.kind # "none" /\ Len(teamAIds.v) = 2)
              THEN "DOUBLES" ELSE "SINGLES",
     winnerIds |-> winnerIds, loserIds |-> loserIds, score |-> "11-8",
     eloChange |-> 0,
     teamAIds |-> teamAIds, teamBIds |-> teamBIds, winnerTeam |-> winnerTeam]

Canonical(winnerIds, loserIds) == Rec(winnerIds, loserIds, NoField, NoField, "none")

Legacy(teamAIds, teamBIds, winnerTeam) ==
    Rec(<< >>, << >>, teamAIds, teamBIds, winnerTeam)

RecordShapes ==
    { Canonical(<<Str("1")>>, <<Str("2")>>),
      Canonical(<<Str("2")>>, <<Num("1")>>),
      Canonical(<<Str("1"), Str("2")>>, <<Str("3"), Str("4")>>),
      Canonical(<<Str("1"), Str("9")>>, <<Str("2"), Str("3")>>),
      Canonical(<<Str("1")>>, <<Str("9")>>),
      Canonical(<<Str("1"), Str("1")>>, <<Str("2")>>),
      Canonical(<<Str("1")>>, <<Str("1")>>),
      Rec(<<Str("1")>>, <<Str("2")>>,
          ListField(<<Str("2")>>), ListField(<<Str("1")>>), "A"),
      Legacy(ListField(<<Num("1")>>), ListField(<<Num("2")>>), "A"),
      Legacy(ListField(<<Str("1"), Str("2")>>), ListField(<<Str("3"), Str("4")>>), "B"),
      Legacy(ListField(<<Str("1")>>), ListField(<<Str("2")>>), "none"),
      Legacy(ListField(<<Str("1")>>), NoField, "A"),
      Legacy(StrField(<<1, 2>>), ListField(<<Str("3")>>), "A"),
      Legacy(NoField, NoField, "none") }

\* The numbers 1, 10 and 9 (parseData yields a number for a numeric cell):
\* as strings, "1" < "10" < "9"
MatchIds == {Num(<<1>>), Num(<<1, 0>>), Num(<<9>>)}

Records ==
    {[id |-> ir[1]] @@ ir[2] : ir \in MatchIds \X RecordShapes}

\* The sequences over S of length at most n
SeqsUpTo(S, n) == UNION {[1..k -> S] : k \in 0..n}

InitRecalc ==
    /\ cachedPlayers \in PlayerLists
    /\ cachedMatches \in SeqsUpTo(Records, MaxMatches)
    /\ FetchedAndIdle
    /\ last = [op |-> "none"]

Recalculate == recalculateAllStats(AllSucceed)

NextRecalc == Recalculate

SpecRecalc == InitRecalc /\ [][NextRecalc]_vars

----------------------------------------------------------------------------
(* A session: from four new players and an empty log, matches are logged   *)
(* and the stats recalculated, one operation at a time, every backend call *)
(* answered with success.  The calls are those a caller of the service can *)
(* make, well formed or not.                                               *)

Call(type, winnerIds, loserIds, score) ==
    [type |-> type, winnerIds |-> winnerIds, loserIds |-> loserIds, score |-> score]

Calls ==
    { Call("SINGLES", <<Str("1")>>, <<Str("2")>>, "11-8"),
      Call("SINGLES", <<Str("2")>>, <<Str("1")>>, "11-8"),
      Call("SINGLES", <<Str("2")>>, <<Str("3")>>, "11-8"),
      Call("DOUBLES", <<Str("1"), Str("2")>>, <<Str("3"), Str("4")>>, "11-8"),
      Call("DOUBLES", <<Str("1"), Str("9")>>, <<Str("2"), Str("3")>>, "11-8"),
      Call("SINGLES", <<Str("9")>>, <<Str("1")>>, "11-8"),
      Call("SINGLES", << >>, <<Str("1")>>, "11-8"),
      Call("SINGLES", <<Str("1"), Str("2")>>, <<Str("3")>>, "11-8"),
      Call("DOUBLES", <<Str("1")>>, <<Str("2")>>, "11-8"),
      Call("SINGLES", <<Str("1")>>, <<Str("1")>>, "11-8"),
      Call("DOUBLES", <<Str("1"), Str("2")>>, <<Str("2"), Str("3")>>, "11-8"),
      Call("DOUBLES", <<Str("1"), Str("1")>>, <<Str("2"), Str("3")>>, "11-8"),
      Call("SINGLES", <<Str("1")>>, <<Str("2")>>, "") }

\* The values crypto.randomUUID() can return: drawn at random, in no order
Uuids == {Str(<<3>>), Str(<<5>>), Str(<<7>>)}

UsedIds == {cachedMatches[i].id : i \in 1..Len(cachedMatches)}

InitSession ==
    /\ cachedPlayers = FreshPlayers
    /\ cachedMatches = << >>
    /\ FetchedAndIdle
    /\ last = [op |-> "none"]

\* At most MaxMatches matches are logged between two recalculations
LogAMatch ==
    /\ Sum([i \in 1..Len(cachedPlayers) |-> cachedPlayers[i].wins]) < MaxMatches
    /\ \E c \in Calls, newId \in Uuids \ UsedIds :
           logMatch(c.type, c.winnerIds, c.loserIds, c.score, newId, AllSucceed)

NextSession == LogAMatch \/ Recalculate

SpecSession == InitSession /\ [][NextSession]_vars

----------------------------------------------------------------------------
(* Deletion from a fetched cache: four players with fresh or stale stats   *)
(* and a log whose ids are numbers or strings, some of them repeated;      *)
(* matches are deleted, whatever the backend answers, and the stats        *)
(* recalculated.                                                           *)

\* The number 1, the string "1" and the string "9"
StoredIds == {Num(<<1>>), Str(<<1>>), Str(<<9>>)}

StoredRecords ==
    {[id |-> ir[1]] @@ ir[2] :
        ir \in StoredIds \X {Canonical(<<Str("1")>>, <<Str("2")>>),
                             Canonical(<<Str("2")>>, <<Str("3")>>)}}

\* The ids a caller can ask to delete: those of the records, and one that no
\* record has
DeleteIds == StoredIds \cup {Str(<<5>>)}

InitDelete ==
    /\ cachedPlayers \in PlayerLists
    /\ cachedMatches \in SeqsUpTo(StoredRecords, MaxMatches)
    /\ FetchedAndIdle
    /\ last = [op |-> "none"]

DeleteAMatch == \E matchId \in DeleteIds, resp \in Responses : deleteMatch(matchId, resp)

NextDelete == DeleteAMatch \/ Recalculate

SpecDelete == InitDelete /\ [][NextDelete]_vars

----------------------------------------------------------------------------
(* Writes against a backend that can fail: from four new players and an    *)
(* empty log, well-formed matches are logged and matches deleted, and each *)
(* awaited apiCall is answered with success, answered with an error        *)
(* status, or rejects.                                                     *)

ValidCalls ==
    { Call("SINGLES", <<Str("1")>>, <<Str("2")>>, "11-8"),
      Call("SINGLES", <<Str("2")>>, <<Str("3")>>, "11-8"),
      Call("DOUBLES", <<Str("1"), Str("2")>>, <<Str("3"), Str("4")>>, "11-8") }

\* The calls of one logMatch: all answered with success, or one of the first
\* three (addMatch and two updatePlayer) answered otherwise
ResponseRuns ==
    {[k \in 1..MaxCalls |-> IF k = at THEN resp ELSE "success"] :
        at \in 1..3, resp \in Responses}

InitWrites ==
    /\ cachedPlayers = FreshPlayers
    /\ cachedMatches = << >>
    /\ FetchedAndIdle
    /\ last = [op |-> "none"]

\* At most MaxMatches matches are logged, and the sheet holds at most
\* MaxMatches rows
WriteAMatch ==
    /\ Sum([i \in 1..Len(cachedPlayers) |-> cachedPlayers[i].wins]) < MaxMatches
    /\ Len(sheetMatches) < MaxMatches
    /\ \E c \in ValidCalls, newId \in Uuids \ UsedIds, resps \in ResponseRuns :
           logMatch(c.type, c.winnerIds, c.loserIds, c.score, newId, resps)

\* A match of the history is deleted
DeleteAWrittenMatch == \E matchId \in UsedIds, resp \in Responses : deleteMatch(matchId, resp)

NextWrites == WriteAMatch \/ DeleteAWrittenMatch

SpecWrites == InitWrites /\ [][NextWrites]_vars

----------------------------------------------------------------------------
(* Recovery from partial writes: from four new players and an empty log,   *)
(* well-formed matches are logged while any one of the writes of a         *)
(* logMatch may reject; the data is fetched again and the stats are        *)
(* recalculated, every write of the recalculation answered with success.   *)

\* The calls of one logMatch: all answered with success, or one of the first
\* three rejects
RejectRuns ==
    {[k \in 1..MaxCalls |-> IF k = at THEN "reject" ELSE "success"] : at \in 0..3}

\* The sheets hold at most MaxMatches match rows
LogWithRejects ==
    /\ Len(sheetMatches) < MaxMatches
    /\ \E c \in ValidCalls, newId \in Uuids \ {sheetMatches[i].id : i \in 1..Len(sheetMatches)},
          resps \in RejectRuns :
           logMatch(c.type, c.winnerIds, c.loserIds, c.score, newId, resps)

\* fetchData against the backend as it is
FetchFromSheets ==
    fetchData(doGet([players |-> sheetPlayers, matches |-> sheetMatches]), "success")

NextRecover == LogWithRejects \/ FetchFromSheets \/ Recalculate

SpecRecover == InitWrites /\ [][NextRecover]_vars

----------------------------------------------------------------------------
(* Invocations interleaved at their await points.  pending holds the       *)
(* invocations suspended at an await, each with what it computed before    *)
(* its first await and the requests not answered yet.                      *)

MaxInFlight == 2

CurrentSheet == [players |-> sheetPlayers, matches |-> sheetMatches]

RemoveAt(seq, i) == SubSeq(seq, 1, i - 1) \o SubSeq(seq, i + 1, Len(seq))

\* logMatch from its call to its first await
startLogMatch(type, winnerIds, loserIds, score, newId) ==
    \E r \in {logMatchResult(cachedPlayers, type, winnerIds, loserIds, score, newId)} :
        /\ pending' =
               IF r.ok
               THEN Append(pending,
                           [op |-> "logMatch", caller |-> "service",
                            newMatch |-> <<r.match>>, updatedPlayers |-> r.players,
                            requests |-> logMatchRequests(r.match, r.players,
                                                          winnerIds, loserIds)])
               ELSE pending
        /\ UNCHANGED <<cachedPlayers, cachedMatches, API_URL, sheetPlayers,
                       sheetMatches, screen>>
        /\ last' = [op |-> "start", of |-> "logMatch", ok |-> r.ok]

\* recalculateAllStats from its call to its first await
startRecalculateAllStats ==
    LET threw == replayThrows(cachedMatches)
    IN  \E updatedPlayers \in {IF threw THEN << >>
                                ELSE recalculate(cachedPlayers, cachedMatches)} :
            /\ pending' =
                   IF threw THEN pending
                   ELSE Append(pending,
                               [op |-> "recalculateAllStats", caller |-> "service",
                                newMatch |-> << >>,
                                updatedPlayers |-> updatedPlayers,
                                requests |-> recalculateRequests(updatedPlayers)])
            /\ UNCHANGED <<cachedPlayers, cachedMatches, API_URL, sheetPlayers,
                           sheetMatches, screen>>
            /\ last' = [op |-> "start", of |-> "recalculateAllStats", ok |-> ~threw]

\* Faulty variant: the match is cached as soon as a request is answered
matchesAfterAnyAnswer(inv, done) == cachedMatches \o inv.newMatch

\* cachedMatches when an await of inv has settled: the match is appended at
\* the end of logMatch
matchesAfter(inv, done) == IF done THEN cachedMatches \o inv.newMatch ELSE cachedMatches

\* The await of invocation i settles with resp and the invocation runs to
\* its next await, to its throw, or to its end, where it assigns the cache;
\* handleSubmit, when it awaits the invocation, then runs on: onMatchLogged()
\* (the parent leaves the screen) or its catch block
settle(i, resp) ==
    LET inv == pending[i]
        none == inv.requests = << >>
        unconfigured == ~none /\ API_URL = ""
    IN  \E a \in {IF none \/ unconfigured THEN [sheet |-> CurrentSheet, resp |-> "success"]
                  ELSE apiCall(CurrentSheet, Head(inv.requests), resp)} :
            LET left == IF none THEN << >> ELSE Tail(inv.requests)
                threw == unconfigured \/ a.resp = "reject"
                done == ~threw /\ left = << >>
            IN  /\ sheetPlayers' = a.sheet.players
                /\ sheetMatches' = a.sheet.matches
                /\ pending' = IF threw \/ done THEN RemoveAt(pending, i)
                              ELSE [pending EXCEPT ![i].requests = left]
                /\ cachedMatches' = matchesAfter(inv, done)
                /\ cachedPlayers' = IF done THEN inv.updatedPlayers ELSE cachedPlayers
                /\ screen' = IF inv.caller # "LogMatch" THEN screen
                              ELSE IF threw
                              THEN [screen EXCEPT !.error = "Failed to log match",
                                                  !.isSubmitting = FALSE]
                              ELSE IF done THEN NoScreen
                              ELSE screen
                /\ UNCHANGED API_URL
                /\ last' = [op |-> "settle", of |-> inv.op, ok |-> ~threw,
                            done |-> done,
                            prePlayers |-> cachedPlayers, preMatches |-> cachedMatches]

InFlightMatches ==
    {pending[i].newMatch[1].id : i \in {k \in 1..Len(pending) : pending[k].op = "logMatch"}}

\* A well-formed match is logged while at most one other invocation is in
\* flight; the cache and the invocations in flight hold at most MaxMatches
\* matches
StartALogMatch ==
    /\ Len(pending) < MaxInFlight
    /\ Len(cachedMatches) + Cardinality(InFlightMatches) < MaxMatches
    /\ \E c \in ValidCalls, newId \in Uuids \ (UsedIds \cup InFlightMatches) :
           startLogMatch(c.type, c.winnerIds, c.loserIds, c.score, newId)

StartARecalculation ==
    /\ Len(pending) < MaxInFlight
    /\ startRecalculateAllStats

\* Every request is answered with success
SettleOne == \E i \in 1..Len(pending) : settle(i, "success")

NextConcurrent == StartALogMatch \/ StartARecalculation \/ SettleOne

SpecConcurrent == InitWrites /\ [][NextConcurrent]_vars

----------------------------------------------------------------------------
(* Configuration: the API URL is set and unset between the operations of   *)
(* the service; every request that is sent is answered with success.       *)

Urls == {"", DeployedUrl}

\* The ids crypto.randomUUID() gives new players
PlayerUuids == {"u5"}

SetTheUrl == \E url \in Urls : setApiUrl(url)

\* At most MaxCalls - 1 players, so that AllSucceed answers every write of
\* a recalculation
AddAPlayer ==
    /\ Len(cachedPlayers) < MaxCalls
    /\ \E newId \in PlayerUuids \ {cachedPlayers[i].id : i \in 1..Len(cachedPlayers)} :
           addPlayer("Eve", newId, "success")

LogAValidMatch ==
    /\ Sum([i \in 1..Len(cachedPlayers) |-> cachedPlayers[i].wins]) < MaxMatches
    /\ Len(cachedMatches) < MaxMatches
    /\ \E c \in ValidCalls, newId \in Uuids \ UsedIds :
           logMatch(c.type, c.winnerIds, c.loserIds, c.score, newId, AllSucceed)

DeleteACachedMatch == \E matchId \in UsedIds : deleteMatch(matchId, "success")

NextConfig ==
    \/ SetTheUrl
    \/ FetchFromSheets
    \/ AddAPlayer
    \/ LogAValidMatch
    \/ DeleteACachedMatch
    \/ Recalculate

SpecConfig == InitWrites /\ [][NextConfig]_vars

----------------------------------------------------------------------------
(* Fetching: response bodies of every shape are fetched, one after the     *)
(* other, with every outcome of the request.                               *)

\* Rows of the Players sheet as parseData reads them: a numeric id cell and
\* one that is text; stats cells that are numbers and ones that are text
RawPlayers ==
    { [id |-> Num("1"), name |-> "Ann", elo |-> NumCell(1216), wins |-> NumCell(1),
       losses |-> NumCell(0), createdAt |-> "t0"],
      [id |-> Str("u5"), name |-> "Eve", elo |-> TextCell(""), wins |-> TextCell("n/a"),
       losses |-> NumCell(2), createdAt |-> "t0"] }

\* Rows of the Matches sheet as parseData reads them: id cells that are
\* numbers or text, id lists of strings or of numbers, cells that hold no
\* list, an eloChange cell that is text
RawMatches ==
    { [id |-> Str(<<3>>), type |-> "SINGLES", winnerIds |-> ListField(<<Str("1")>>),
       loserIds |-> ListField(<<Str("2")>>), score |-> "11-8",
       eloChange |-> NumCell(16), teamAIds |-> NoField, teamBIds |-> NoField,
       winnerTeam |-> "none"],
      [id |-> Num(<<9>>), type |-> "SINGLES", winnerIds |-> ListField(<<Str("1")>>),
       loserIds |-> ListField(<<Str("2")>>), score |-> "11-8",
       eloChange |-> NumCell(16), teamAIds |-> NoField, teamBIds |-> NoField,
       winnerTeam |-> "none"],
      [id |-> Str(<<5>>), type |-> "SINGLES", winnerIds |-> ListField(<<Num("1")>>),
       loserIds |-> ListField(<<Num("2")>>), score |-> "11-8",
       eloChange |-> NumCell(16), teamAIds |-> NoField, teamBIds |-> NoField,
       winnerTeam |-> "none"],
      [id |-> Str(<<7>>), type |-> "SINGLES", winnerIds |-> StrField(<<1, 2>>),
       loserIds |-> NoField, score |-> "11-8",
       eloChange |-> TextCell(""), teamAIds |-> ListField(<<Str("1")>>),
       teamBIds |-> ListField(<<Str("2")>>), winnerTeam |-> "A"] }

MaxRows == 1

\* A collection of a body: a list of at most MaxRows rows, or something
\* that is no list
Collections(rows) ==
    {[kind |-> "other"]} \cup {[kind |-> "list", v |-> v] : v \in SeqsUpTo(rows, MaxRows)}

Bodies ==
    {[players |-> ps, matches |-> ms] :
        ps \in Collections(RawPlayers), ms \in Collections(RawMatches)}

FetchABody == \E data \in Bodies, resp \in Responses : fetchData(data, resp)

SpecFetch == InitWrites /\ [][FetchABody]_vars

----------------------------------------------------------------------------
(* The LogMatch screen.  Every click is handled, and the component         *)
(* rendered again, before the next one.                                    *)

RECURSIVE trimStart(_)
trimStart(s) == IF s # << >> /\ Head(s) = " " THEN trimStart(Tail(s)) ELSE s

RECURSIVE trimEnd(_)
trimEnd(s) ==
    IF s # << >> /\ s[Len(s)] = " " THEN trimEnd(SubSeq(s, 1, Len(s) - 1)) ELSE s

\* score.trim()
trim(s) == trimEnd(trimStart(s))

\* ids.filter(pid => pid !== id)
Without(ids, id) == SelectSeq(ids, LAMBDA pid : pid # Str(id))

ScreenStep(next) ==
    /\ screen' = next
    /\ UNCHANGED <<cachedPlayers, cachedMatches, API_URL, sheetPlayers, sheetMatches,
                   pending>>
    /\ last' = [op |-> "click"]

\* The parent mounts the component
openScreen == screen.step = 0 /\ ScreenStep(NewScreen)

\* Cancel, step 1
onCancel == screen.step = 1 /\ ScreenStep(NoScreen)

\* The Singles and Doubles buttons, step 1
setMatchType(type) == screen.step = 1 /\ ScreenStep([screen EXCEPT !.matchType = type])

\* Next of step 1, Back of step 3
toPlayers ==
    /\ screen.step = 1 \/ (screen.step = 3 /\ ~screen.isSubmitting)
    /\ ScreenStep([screen EXCEPT !.step = 2])

\* Back of step 2
toType == screen.step = 2 /\ ScreenStep([screen EXCEPT !.step = 1])

\* A player button of step 2, disabled when the player is in the other group
handlePlayerSelect(id, isWinner) ==
    LET target == IF isWinner THEN "winnerIds" ELSE "loserIds"
        other == IF isWinner THEN "loserIds" ELSE "winnerIds"
        limit == IF screen.matchType = "SINGLES" THEN 1 ELSE 2
        cleared == IF Includes(screen[other], id) THEN Without(screen[other], id)
                   ELSE screen[other]
        toggled == IF Includes(screen[target], id) THEN Without(screen[target], id)
                   ELSE IF Len(screen[target]) < limit THEN Append(screen[target], Str(id))
                   ELSE screen[target]
    IN  /\ screen.step = 2
        /\ ~Includes(screen[other], id)
        /\ ScreenStep([screen EXCEPT ![other] = cleared, ![target] = toggled])

\* Faulty variant: every selection passes
validatePlayersNever(scr) == TRUE

validatePlayers(scr) ==
    LET required == IF scr.matchType = "SINGLES" THEN 1 ELSE 2
    IN  Len(scr.winnerIds) = required /\ Len(scr.loserIds) = required

\* Next of step 2: validatePlayers() && setStep(3)
toScore ==
    /\ screen.step = 2
    /\ ScreenStep(IF validatePlayers(screen)
                  THEN [screen EXCEPT !.error = "null", !.step = 3]
                  ELSE [screen EXCEPT !.error = "Select players"])

\* The score input of step 3, disabled while submitting
setScore(score) ==
    /\ screen.step = 3 /\ ~screen.isSubmitting
    /\ ScreenStep([screen EXCEPT !.score = score])

\* Faulty variant: the screen does not record that it is submitting
submittingUnmarked(scr) == scr

submitting(scr) == [scr EXCEPT !.isSubmitting = TRUE]

\* Confirm of step 3, disabled while submitting: handleSubmit to its await
handleSubmit(newId) ==
    /\ screen.step = 3 /\ ~screen.isSubmitting
    /\ UNCHANGED <<cachedPlayers, cachedMatches, API_URL, sheetPlayers, sheetMatches>>
    /\ IF trim(screen.score) = << >>
       THEN /\ screen' = [screen EXCEPT !.error = "Please enter a valid score"]
            /\ UNCHANGED pending
            /\ last' = [op |-> "handleSubmit", called |-> FALSE]
       ELSE \E r \in {logMatchResult(cachedPlayers, screen.matchType, screen.winnerIds,
                                     screen.loserIds, screen.score, newId)} :
                /\ pending' =
                       IF r.ok
                       THEN Append(pending,
                                   [op |-> "logMatch", caller |-> "LogMatch",
                                    newMatch |-> <<r.match>>,
                                    updatedPlayers |-> r.players,
                                    requests |-> logMatchRequests(r.match, r.players,
                                                     screen.winnerIds, screen.loserIds)])
                       ELSE pending
                /\ screen' = IF r.ok THEN submitting(screen)
                             ELSE [screen EXCEPT !.error = "Failed to log match"]
                /\ last' = [op |-> "handleSubmit", called |-> TRUE,
                            call |-> [type |-> screen.matchType,
                                      winnerIds |-> screen.winnerIds,
                                      loserIds |-> screen.loserIds,
                                      score |-> screen.score]]

\* What is typed into the score input
Scores == {<< >>, <<" ">>, <<"3", "-", "0">>}

MaxSubmissions == 1

\* The screen is opened while the log holds fewer than MaxSubmissions matches
OpenTheScreen == Len(cachedMatches) < MaxSubmissions /\ openScreen

PickType == \E type \in MatchTypes : setMatchType(type)

PickPlayer ==
    \E i \in 1..Len(cachedPlayers), isWinner \in BOOLEAN :
        handlePlayerSelect(cachedPlayers[i].id, isWinner)

TypeScore == \E score \in Scores : setScore(score)

\* crypto.randomUUID() gives an id no match has
Confirm == \E newId \in {CHOOSE id \in Uuids \ UsedIds : TRUE} : handleSubmit(newId)

\* The submission in flight fails at its first request (the network is
\* down), or its next request is answered with success
SubmissionSettles ==
    \E i \in 1..Len(pending) :
        \/ settle(i, "success")
        \/ /\ pending[i].requests # << >>
           /\ Head(pending[i].requests).action = "addMatch"
           /\ settle(i, "reject")

NextScreen ==
    \/ OpenTheScreen
    \/ onCancel
    \/ PickType
    \/ toPlayers
    \/ toType
    \/ PickPlayer
    \/ toScore
    \/ TypeScore
    \/ Confirm
    \/ SubmissionSettles

SpecScreen == InitWrites /\ [][NextScreen]_vars

----------------------------------------------------------------------------
(* One logMatch at a time, seen at its await points: a well-formed match   *)
(* is logged when no invocation is in flight, and each of its requests is  *)
(* answered with success or rejects.                                       *)

StartOneLogMatch ==
    /\ pending = << >>
    /\ Len(sheetMatches) < MaxMatches
    /\ \E c \in ValidCalls, newId \in Uuids \ {sheetMatches[i].id : i \in 1..Len(sheetMatches)} :
           startLogMatch(c.type, c.winnerIds, c.loserIds, c.score, newId)

SettleOrReject == \E i \in 1..Len(pending), resp \in {"success", "reject"} : settle(i, resp)

NextAwaits == StartOneLogMatch \/ SettleOrReject

SpecAwaits == InitWrites /\ [][NextAwaits]_vars

----------------------------------------------------------------------------
(* The backend's recalculateAllStats, the PongRank menu item of the        *)
(* spreadsheet, which reads the rows as parseData gives them.              *)

\* parseData of the Players sheet with the stats reset; rawId is the id as
\* parsed, id the key String(p.id) of the lookup map
backendResetPlayers(rows) ==
    [i \in 1..Len(rows) |->
        [id |-> String(rows[i].id), rawId |-> rows[i].id, name |-> rows[i].name,
         elo |-> BaseElo, wins |-> 0, losses |-> 0, createdAt |-> rows[i].createdAt]]

\* The winners and losers the backend takes from a row: x && x.length holds
\* for a non-empty list and for a non-empty text, and .map raises on a text
backendNormalize(m) ==
    IF HasLength(m.winnerIds) /\ HasLength(m.loserIds)
    THEN IF m.winnerIds.kind # "list" \/ m.loserIds.kind # "list"
         THEN [tag |-> "throw", winnerIds |-> << >>, loserIds |-> << >>]
         ELSE [tag |-> "ok", winnerIds |-> MapString(m.winnerIds.v),
               loserIds |-> MapString(m.loserIds.v)]
    ELSE IF HasLength(m.teamAIds) /\ HasLength(m.teamBIds)
    THEN IF m.teamAIds.kind # "list" \/ m.teamBIds.kind # "list"
         THEN [tag |-> "throw", winnerIds |-> << >>, loserIds |-> << >>]
         ELSE IF m.winnerTeam = "A"
         THEN [tag |-> "ok", winnerIds |-> MapString(m.teamAIds.v),
               loserIds |-> MapString(m.teamBIds.v)]
         ELSE [tag |-> "ok", winnerIds |-> MapString(m.teamBIds.v),
               loserIds |-> MapString(m.teamAIds.v)]
    ELSE [tag |-> "skip", winnerIds |-> << >>, loserIds |-> << >>]

backendReplayMatch(playerMap, m) ==
    LET n == backendNormalize(m)
        winners == resolve(playerMap, n.winnerIds)
        losers == resolve(playerMap, n.loserIds)
    IN  IF n.tag # "ok" THEN playerMap
        ELSE IF Len(winners) = 0 \/ Len(losers) = 0 THEN playerMap
        ELSE applyMatch(playerMap, n.winnerIds, n.loserIds,
                        EloChange(Elos(winners), Elos(losers)))

RECURSIVE backendReplayAll(_, _)
backendReplayAll(playerMap, matches) ==
    IF matches = << >> THEN playerMap
    ELSE backendReplayAll(backendReplayMatch(playerMap, Head(matches)), Tail(matches))

\* The rows written back to the Players sheet
backendRows(players) ==
    [i \in 1..Len(players) |->
        [id |-> players[i].rawId, name |-> players[i].name,
         elo |-> NumCell(players[i].elo), wins |-> NumCell(players[i].wins),
         losses |-> NumCell(players[i].losses), createdAt |-> players[i].createdAt]]

\* The backend's recalculateAllStats on the sheets: what it leaves in the
\* Players sheet, and whether it raised
backendRecalculate(sheet) ==
    LET sorted == sortedMatches(sheet.matches)
        threw == \E k \in 1..Len(sorted) : backendNormalize(sorted[k]).tag = "throw"
    IN  IF Len(sheet.players) = 0 \/ threw
        THEN [players |-> sheet.players, threw |-> Len(sheet.players) > 0 /\ threw]
        ELSE [players |-> backendRows(backendReplayAll(
                              playerMapOf(backendResetPlayers(sheet.players)), sorted)),
              threw |-> FALSE]

\* The menu item is chosen; prePlayers and preMatches are what fetchData
\* would have cached of the sheets before it
menuRecalculateAllStats ==
    \E r \in {backendRecalculate(CurrentSheet)} :
        /\ sheetPlayers' = r.players
        /\ UNCHANGED <<cachedPlayers, cachedMatches, API_URL, sheetMatches, pending,
                       screen>>
        /\ last' = [op |-> "menuRecalculateAllStats", ok |-> ~r.threw,
                    threw |-> r.threw,
                    prePlayers |-> validPlayers(doGet(CurrentSheet)),
                    preMatches |-> validMatches(doGet(CurrentSheet))]

\* Rows whose winnerIds cell holds a text that is not JSON
TextRows ==
    { [id |-> id, type |-> "SINGLES", winnerIds |-> StrField(<<1, 2>>),
       loserIds |-> loserIds, score |-> "11-8", eloChange |-> NumCell(16),
       teamAIds |-> NoField, teamBIds |-> NoField, winnerTeam |-> "none"] :
          id \in MatchIds, loserIds \in {ListField(<<Str("2")>>), NoField} }

\* The rows of the Matches sheet: those of the records, and the text rows
SheetRows == {matchRow(r) : r \in Records} \cup TextRows

\* Sheets of up to MaxMatches matches, and the cache fetchData makes of them
InitMenu ==
    /\ sheetPlayers \in {playerRows(ps) : ps \in PlayerLists}
    /\ sheetMatches \in SeqsUpTo(SheetRows, MaxMatches)
    /\ cachedPlayers = validPlayers(doGet(CurrentSheet))
    /\ cachedMatches = validMatches(doGet(CurrentSheet))
    /\ API_URL = DeployedUrl
    /\ pending = << >>
    /\ screen = NoScreen
    /\ last = [op |-> "none"]

NextMenu == menuRecalculateAllStats \/ Recalculate

SpecMenu == InitMenu /\ [][NextMenu]_vars

----------------------------------------------------------------------------
(* Reading the last operation *)

Logged == last.op = "logMatch" /\ last.ok

\* The match the last logMatch appended
LoggedMatch == cachedMatches[Len(cachedMatches)]

\* The players the last logMatch resolved, as the cache held them before it
PreWinners == SelectSeq(last.prePlayers, LAMBDA p : Includes(last.call.winnerIds, p.id))
PreLosers == SelectSeq(last.prePlayers, LAMBDA p : Includes(last.call.loserIds, p.id))

\* The cached player with the id of p
Now(p) == CHOOSE q \in Range(cachedPlayers) : q.id = p.id

----------------------------------------------------------------------------
\* A DOUBLES match a pair rated 1200 and 1300 won against a pair rated 1100 and 1100
ScenarioE ==
    /\ Logged
    /\ last.call.type = "DOUBLES"
    /\ Len(PreWinners) = 2 /\ Len(PreLosers) = 2
    /\ {PreWinners[1].elo, PreWinners[2].elo} = {1200, 1300}
    /\ {PreLosers[1].elo, PreLosers[2].elo} = {1100}
    /\ Range(PreWinners) \cap Range(PreLosers) = {}

\* The ratings the last logMatch resolved, in the order of its id lists, as
\* the replay of its match over the same players reads them
ReplayWinners == resolve(last.prePlayers, MapString(last.call.winnerIds))
ReplayLosers == resolve(last.prePlayers, MapString(last.call.loserIds))

\* The match gave every winner one win and every loser one loss, when logged
\* and when replayed over the same players
CountedOnce ==
    /\ \A p \in Range(PreWinners) : Now(p).wins = p.wins + 1
    /\ \A p \in Range(PreLosers) : Now(p).losses = p.losses + 1
    /\ LET replayed == replayMatch(last.prePlayers, LoggedMatch)
       IN  \A i \in 1..Len(replayed) :
               /\ replayed[i].wins = last.prePlayers[i].wins
                      + (IF last.prePlayers[i] \in Range(PreWinners) THEN 1 ELSE 0)
               /\ replayed[i].losses = last.prePlayers[i].losses
                      + (IF last.prePlayers[i] \in Range(PreLosers) THEN 1 ELSE 0)

\* The match changed every winner by +c and every loser by -c, when logged
\* and when replayed over the same ratings
MovedBy(c) ==
    /\ LoggedMatch.eloChange = c
    /\ \A p \in Range(PreWinners) : Now(p).elo = p.elo + c
    /\ \A p \in Range(PreLosers) : Now(p).elo = p.elo - c
    /\ LET replayed == replayMatch(last.prePlayers, LoggedMatch)
       IN  \A i \in 1..Len(replayed) :
               replayed[i].elo - last.prePlayers[i].elo
                   = IF last.prePlayers[i] \in Range(PreWinners) THEN c
                     ELSE IF last.prePlayers[i] \in Range(PreLosers) THEN -c
                     ELSE 0

(* C1: the rating change of a logged match is an integer in 0..32; a player *)
(* listed as a winner never ends the match with a lower rating, and a      *)
(* player listed as a loser (and not also as a winner) never with a higher *)
(* one.                                                                    *)
C1_ChangeInRange ==
    Logged =>
        /\ LoggedMatch.eloChange \in 0..K
        /\ \A p \in Range(PreWinners) : Now(p).elo >= p.elo
        /\ \A p \in Range(PreLosers) \ Range(PreWinners) : Now(p).elo <= p.elo

\* An underdog's win moves the full 32 points, a favourite's win none
C1_Witness ==
    /\ Logged
    /\ LoggedMatch.eloChange = K
    /\ \E p \in Range(PreLosers) : Now(p).elo = p.elo - K

(* C2: when the two groups have the same average rating the rating change  *)
(* is 16, whatever the group sizes; a SINGLES match between two players    *)
(* rated 1200 leaves the winner at 1216 with one more win and the loser at *)
(* 1184 with one more loss.                                                *)
C2_EqualAverages ==
    Logged =>
        /\ (Sum(Elos(PreWinners)) * Len(PreLosers)
                = Sum(Elos(PreLosers)) * Len(PreWinners))
               => /\ LoggedMatch.eloChange = 16
                  /\ replayChange(ReplayWinners, ReplayLosers) = 16
        /\ (/\ last.call.type = "SINGLES"
            /\ Len(PreWinners) = 1 /\ Len(PreLosers) = 1
            /\ PreWinners[1].elo = 1200 /\ PreLosers[1].elo = 1200
            /\ PreWinners[1].id # PreLosers[1].id)
               => /\ MovedBy(16)
                  /\ CountedOnce
                  /\ Now(PreWinners[1]).elo = 1216
                  /\ Now(PreLosers[1]).elo = 1184

\* One player rated 1200 has beaten a pair rated 1100 and 1300
C2_Witness ==
    /\ Logged
    /\ Len(PreWinners) = 1 /\ Len(PreLosers) = 2
    /\ PreWinners[1].elo = 1200
    /\ {PreLosers[1].elo, PreLosers[2].elo} = {1100, 1300}
    /\ LoggedMatch.eloChange = 16

\* A SINGLES match the player rated 1216 won against the player rated 1000
ScenarioB ==
    /\ Logged
    /\ last.call.type = "SINGLES"
    /\ Len(PreWinners) = 1 /\ Len(PreLosers) = 1
    /\ PreWinners[1].elo = 1216 /\ PreLosers[1].elo = 1000

(* C3, as stated: when a player rated 1216 beats a player rated 1000 in a  *)
(* SINGLES match the rating change is 4, the winner ends at 1220 and the   *)
(* loser at 996.                                                           *)
C3_Original ==
    ScenarioB =>
        /\ MovedBy(4)
        /\ Now(PreWinners[1]).elo = 1220
        /\ Now(PreLosers[1]).elo = 996

(* C3, amended: when a player rated 1216 beats a player rated 1000 in a    *)
(* SINGLES match the rating change is 7, the winner ends at 1223 and the   *)
(* loser at 993.                                                           *)
C3_Amended ==
    ScenarioB =>
        /\ MovedBy(7)
        /\ Now(PreWinners[1]).elo = 1223
        /\ Now(PreLosers[1]).elo = 993

C3_Witness == ScenarioB /\ LoggedMatch.eloChange = 7

(* C4, as stated: in a DOUBLES match with winners rated 1200 and 1300 and   *)
(* losers rated 1100 and 1100 the rating change is 10: each winner gains   *)
(* 10 and each loser loses 10.                                             *)
C4_Original == ScenarioE => MovedBy(10)

(* C4, amended: in a DOUBLES match with winners rated 1200 and 1300 and     *)
(* losers rated 1100 and 1100 the rating change is 9: each winner gains 9  *)
(* and each loser loses 9.                                                 *)
C4_Amended == ScenarioE => MovedBy(9)

C4_Witness == ScenarioE /\ LoggedMatch.eloChange = 9

----------------------------------------------------------------------------
(* Reading the last recalculation *)

Attempted == last.op = "recalculateAllStats"
Recalculated == Attempted /\ last.ok

\* The replay applies the record: it normalizes and both groups resolve
Replayable(players, m) ==
    LET n == normalizeForReplay(m)
    IN  /\ n.tag = "ok"
        /\ Len(resolve(players, n.winnerIds)) > 0
        /\ Len(resolve(players, n.loserIds)) > 0

\* The permutations of a sequence
Reorderings(s) ==
    {[i \in 1..Len(s) |-> s[f[i]]] :
        f \in {g \in [1..Len(s) -> 1..Len(s)] :
                  \A i, j \in 1..Len(s) : g[i] = g[j] => i = j}}

DistinctIds(matches) ==
    \A i, j \in 1..Len(matches) :
        String(matches[i].id) = String(matches[j].id) => i = j

\* Elo, wins and losses by player id
Stats(players) ==
    {<<players[i].id, players[i].elo, players[i].wins, players[i].losses>> :
        i \in 1..Len(players)}

(* C5: recalculation is idempotent: recalculating the output of a          *)
(* completed recalculation over the same match log yields the same player  *)
(* list.                                                                   *)
C5_Idempotent ==
    Recalculated => recalculate(cachedPlayers, cachedMatches) = cachedPlayers

\* A recalculation of stale stats that replayed a match
C5_Witness ==
    /\ Recalculated
    /\ last.prePlayers = StalePlayers
    /\ \E i \in 1..Len(cachedPlayers) : cachedPlayers[i].wins > 0

(* C6: after recalculateAllStats every player's wins equal the number of    *)
(* replayable matches of the log that list the player's id among the       *)
(* winners, and the losses the number that list it among the losers, also  *)
(* when a list repeats an id or an id is on both sides; neither counter is *)
(* negative.                                                               *)
C6_CountersCountMatches ==
    Recalculated =>
        \A i \in 1..Len(cachedPlayers) :
            LET p == cachedPlayers[i]
                listed(m) == Replayable(last.prePlayers, m)
                won == {k \in 1..Len(cachedMatches) :
                           /\ listed(cachedMatches[k])
                           /\ p.id \in Range(normalizeForReplay(cachedMatches[k]).winnerIds)}
                lost == {k \in 1..Len(cachedMatches) :
                            /\ listed(cachedMatches[k])
                            /\ p.id \in Range(normalizeForReplay(cachedMatches[k]).loserIds)}
            IN  /\ p.wins = Cardinality(won)
                /\ p.losses = Cardinality(lost)
                /\ p.wins >= 0 /\ p.losses >= 0

(* C7: the result of recalculateAllStats does not depend on the order in    *)
(* which the cache holds the matches: when the ids of the log are pairwise *)
(* distinct, recalculating any permutation of the log over the same        *)
(* players yields the same elo, wins and losses for every player.          *)
C7_OrderIndependent ==
    (Recalculated /\ DistinctIds(cachedMatches)) =>
        \A perm \in Reorderings(last.preMatches) :
            Stats(recalculate(last.prePlayers, perm)) = Stats(cachedPlayers)

\* Two matches held newest first whose order of replay decides the ratings
C7_Witness ==
    /\ Recalculated
    /\ DistinctIds(cachedMatches)
    /\ Len(cachedMatches) = 2
    /\ compareById(cachedMatches[1], cachedMatches[2]) > 0
    /\ replayAll(playerMapOf(resetPlayers(last.prePlayers)), cachedMatches)
           # cachedPlayers

\* Some winner or loser id of the record does not resolve to a current player
HasUnresolvedId(players, m) ==
    LET n == normalizeForReplay(m)
    IN  \E id \in Range(n.winnerIds) \cup Range(n.loserIds) : ~Has(players, id)

(* C8: during recalculation a match any of whose winner or loser ids fails  *)
(* to resolve to a current player is skipped entirely: it changes no       *)
(* player's elo, wins or losses, also not those of the participants that   *)
(* still exist.                                                            *)
C8_UnresolvedSkipped ==
    Recalculated =>
        cachedPlayers =
            recalculate(last.prePlayers,
                        SelectSeq(cachedMatches,
                                  LAMBDA m : ~HasUnresolvedId(last.prePlayers, m)))

\* The record has a non-empty list in both team fields
HasTeams(m) ==
    /\ m.teamAIds.kind = "list" /\ Len(m.teamAIds.v) > 0
    /\ m.teamBIds.kind = "list" /\ Len(m.teamBIds.v) > 0

HasWinnersAndLosers(m) == Len(m.winnerIds) > 0 /\ Len(m.loserIds) > 0

(* C9: a record with non-empty winnerIds and loserIds yields those groups,  *)
(* ids as strings, whatever team fields it carries; otherwise a record     *)
(* with non-empty teamAIds and teamBIds yields team A as winners and team  *)
(* B as losers when winnerTeam is 'A', and the reverse when it is 'B'; and *)
(* the match history display and the reconciler derive the same winner and *)
(* loser groups for every record.                                          *)
C9_Normalization ==
    Attempted =>
        \A k \in 1..Len(cachedMatches) :
            LET m == cachedMatches[k]
                n == normalizeForReplay(m)
                d == displayGroups(m)
            IN  /\ HasWinnersAndLosers(m) =>
                       /\ n.tag = "ok"
                       /\ n.winnerIds = MapString(m.winnerIds)
                       /\ n.loserIds = MapString(m.loserIds)
                /\ (~HasWinnersAndLosers(m) /\ HasTeams(m) /\ m.winnerTeam = "A") =>
                       /\ n.tag = "ok"
                       /\ n.winnerIds = MapString(m.teamAIds.v)
                       /\ n.loserIds = MapString(m.teamBIds.v)
                /\ (~HasWinnersAndLosers(m) /\ HasTeams(m) /\ m.winnerTeam = "B") =>
                       /\ n.tag = "ok"
                       /\ n.winnerIds = MapString(m.teamBIds.v)
                       /\ n.loserIds = MapString(m.teamAIds.v)
                /\ n.tag # "throw"
                /\ d.winnerIds = n.winnerIds
                /\ d.loserIds = n.loserIds

\* No winnerIds/loserIds pair, and the legacy shape is not fully populated
NotFullyPopulated(m) ==
    /\ ~HasWinnersAndLosers(m)
    /\ ~(HasTeams(m) /\ m.winnerTeam \in {"A", "B"})

(* C10: a record with no non-empty winnerIds/loserIds pair whose legacy     *)
(* shape is not fully populated, such as one with teamAIds and teamBIds    *)
(* but no winnerTeam equal to 'A' or 'B', is unreplayable: recalculation   *)
(* skips it and it changes no player's elo, wins or losses.                *)
C10_PartialLegacySkipped ==
    Recalculated =>
        cachedPlayers =
            recalculate(last.prePlayers,
                        SelectSeq(cachedMatches, LAMBDA m : ~NotFullyPopulated(m)))

----------------------------------------------------------------------------
(* Reading the last logMatch call *)

Called == last.op = "logMatch"

\* The ids of the call, winners and losers
CallIds == Range(last.call.winnerIds) \cup Range(last.call.loserIds)

\* The id is that of a player of the snapshot
Resolves(id) == \E p \in Range(last.prePlayers) : Str(p.id) = id

\* The call failed, and nothing came of it
NothingDone ==
    /\ ~last.ok
    /\ last.writes = << >>
    /\ cachedPlayers = last.prePlayers
    /\ cachedMatches = last.preMatches

(* C11: logMatch fails with the invalid-participants error whenever any id  *)
(* of winnerIds or loserIds does not resolve to a player of the snapshot,  *)
(* not only when a whole group resolves to nothing; then no match is       *)
(* created, no backend write is issued and the cache is unchanged.         *)
C11_AnyUnresolvedRejected ==
    (Called /\ \E id \in CallIds : ~Resolves(id)) =>
        /\ NothingDone
        /\ last.error = "Invalid players selected"

\* The group sizes the type asks for
GroupSize(type) == IF type = "SINGLES" THEN 1 ELSE 2

\* The preconditions of logMatch on the shape of a call
WellFormed(call) ==
    /\ Len(call.winnerIds) = GroupSize(call.type)
    /\ Len(call.loserIds) = GroupSize(call.type)
    /\ Range(call.winnerIds) \cap Range(call.loserIds) = {}
    /\ call.score # ""

(* C12: logMatch rejects every call whose group sizes do not match the type *)
(* (1 and 1 for SINGLES, 2 and 2 for DOUBLES), whose winnerIds and         *)
(* loserIds share an id, or whose score is empty, before any backend write *)
(* and any change of cachedPlayers or cachedMatches.                       *)
C12_IllFormedRejected ==
    (Called /\ ~WellFormed(last.call)) => NothingDone

\* The groups of the call are disjoint and every id of them resolves
DisjointAndResolved ==
    /\ Range(last.call.winnerIds) \cap Range(last.call.loserIds) = {}
    /\ \A id \in CallIds : Resolves(id)

(* C13: after a successful logMatch with disjoint, fully resolved groups,   *)
(* with c the rating change computed from the participants' ratings at     *)
(* call time: every winner has elo + c, wins + 1 and the same losses;      *)
(* every loser has elo - c, losses + 1 and the same wins; every other      *)
(* player is unchanged; the new match stores eloChange = c with the given  *)
(* type, ids and score and is appended at the end of cachedMatches.        *)
C13_LogMatchEffect ==
    (Logged /\ DisjointAndResolved) =>
        LET c == EloChange(Elos(PreWinners), Elos(PreLosers))
        IN  /\ Len(cachedPlayers) = Len(last.prePlayers)
            /\ \A i \in 1..Len(last.prePlayers) :
                   LET p == last.prePlayers[i]
                       q == cachedPlayers[i]
                   IN  IF Str(p.id) \in Range(last.call.winnerIds)
                       THEN q = [p EXCEPT !.elo = p.elo + c, !.wins = p.wins + 1]
                       ELSE IF Str(p.id) \in Range(last.call.loserIds)
                       THEN q = [p EXCEPT !.elo = p.elo - c, !.losses = p.losses + 1]
                       ELSE q = p
            /\ cachedMatches = Append(last.preMatches, LoggedMatch)
            /\ LoggedMatch.eloChange = c
            /\ LoggedMatch.type = last.call.type
            /\ LoggedMatch.winnerIds = last.call.winnerIds
            /\ LoggedMatch.loserIds = last.call.loserIds
            /\ LoggedMatch.score = last.call.score

\* A second match, between players whose ratings the first has moved, that
\* leaves alone a player who has a win
C13_Witness ==
    /\ Logged /\ DisjointAndResolved
    /\ Len(cachedMatches) = 2
    /\ LoggedMatch.eloChange # 16
    /\ \E i \in 1..Len(cachedPlayers) :
           /\ cachedPlayers[i].wins = 1
           /\ cachedPlayers[i] = last.prePlayers[i]
           /\ Str(cachedPlayers[i].id) \notin CallIds

----------------------------------------------------------------------------
\* Player lists with the ids, names and createdAt of FreshPlayers and other
\* stored stats
ExtremePlayers ==
    <<Player("1", 0, 9, 0), Player("2", 3000, 0, 9),
      Player("3", 1199, 1, 1), Player("4", 1201, 0, 0)>>

StatVariants == {FreshPlayers, StalePlayers, ExtremePlayers}

(* C14: the output of recalculateAllStats does not depend on the elo, wins  *)
(* or losses stored before it runs: over the same match log, player lists  *)
(* that agree on ids, names and createdAt and differ in elo, wins and      *)
(* losses recalculate to the same player list.                             *)
C14_StoredStatsIgnored ==
    Recalculated =>
        \A players \in StatVariants :
            recalculate(players, last.preMatches) = cachedPlayers

\* Stale stats recalculated over a log that moves ratings twice
C14_Witness ==
    /\ Recalculated
    /\ last.prePlayers = StalePlayers
    /\ cachedPlayers # StalePlayers
    /\ \E i \in 1..Len(cachedPlayers) : cachedPlayers[i].wins + cachedPlayers[i].losses = 2

\* The player takes part in a match the replay applies
TakesPart(players, id, matches) ==
    \E k \in 1..Len(matches) :
        /\ Replayable(players, matches[k])
        /\ id \in Range(normalizeForReplay(matches[k]).winnerIds)
                     \cup Range(normalizeForReplay(matches[k]).loserIds)

(* C15: recalculateAllStats changes only elo, wins and losses: its output   *)
(* has exactly one player per id of the input, with id, name and createdAt *)
(* unchanged; a player who takes part in no replayed match ends at elo     *)
(* 1200, wins 0, losses 0; and cachedMatches, its records, their fields    *)
(* and their order, is left unchanged.                                     *)
C15_OnlyStatsChange ==
    /\ Attempted => cachedMatches = last.preMatches
    /\ Recalculated =>
           /\ \A p \in Range(last.prePlayers) :
                  /\ Cardinality({j \in 1..Len(cachedPlayers) :
                                     cachedPlayers[j].id = p.id}) = 1
                  /\ \A j \in 1..Len(cachedPlayers) :
                         cachedPlayers[j].id = p.id =>
                             /\ cachedPlayers[j].name = p.name
                             /\ cachedPlayers[j].createdAt = p.createdAt
                             /\ DOMAIN cachedPlayers[j] = DOMAIN p
           /\ \A j \in 1..Len(cachedPlayers) :
                  /\ \E p \in Range(last.prePlayers) : p.id = cachedPlayers[j].id
                  /\ ~TakesPart(last.prePlayers, cachedPlayers[j].id, cachedMatches) =>
                         /\ cachedPlayers[j].elo = BaseElo
                         /\ cachedPlayers[j].wins = 0
                         /\ cachedPlayers[j].losses = 0

\* Stale stats recalculated over a log of matches player 4 has no part in
C15_Witness ==
    /\ Recalculated
    /\ last.prePlayers = StalePlayers
    /\ Len(cachedMatches) = MaxMatches
    /\ \A k \in 1..Len(cachedMatches) : Replayable(last.prePlayers, cachedMatches[k])
    /\ ~TakesPart(last.prePlayers, "4", cachedMatches)
    /\ cachedPlayers[4] = Player("4", BaseElo, 0, 0)
    /\ cachedPlayers[1].wins > 0

(* C16: the replay in recalculateAllStats never raises on messy history:    *)
(* for every cached match log, also with records whose ids or team fields  *)
(* are missing, empty or not of the expected type, such as a team field    *)
(* holding an unparsed string and not a list, the replay completes.        *)
C16_ReplayNeverRaises ==
    Attempted => (~last.threw /\ last.ok)

----------------------------------------------------------------------------
(* Reading the last deleteMatch call *)

Deleted == last.op = "deleteMatch" /\ last.ok

\* The places of the log before the call whose record does not have the id
KeptPlaces == {i \in 1..Len(last.preMatches) : last.preMatches[i].id # last.matchId}

\* The number of kept places up to place i
KeptRank(i) == Cardinality({j \in KeptPlaces : j <= i})

----------------------------------------------------------------------------
(* C18: match ids sort by creation order: of two matches created by         *)
(* successive logMatch calls, the id of the earlier sorts strictly before  *)
(* the id of the later under the comparison recalculation uses, so the     *)
(* replay order is the order in which the matches were logged.             *)
C18_IdsSortByCreation ==
    /\ \A i, j \in 1..Len(cachedMatches) :
           i < j => compareById(cachedMatches[i], cachedMatches[j]) < 0
    /\ sortedMatches(cachedMatches) = cachedMatches

\* The player list successive logMatch calls leave, one per record of the log
RECURSIVE logAll(_, _)
logAll(players, matches) ==
    IF matches = << >> THEN players
    ELSE LET m == Head(matches)
         IN  logAll(logMatchResult(players, m.type, m.winnerIds, m.loserIds,
                                   m.score, m.id).players,
                    Tail(matches))

\* The cache before the last operation is what logMatch calls alone have made
\* of four new players and an empty log
IncrementallyMaintained ==
    last.prePlayers = logAll(FreshPlayers, last.preMatches)

(* C19: replay reproduces the incrementally maintained state: from players  *)
(* at elo 1200, wins 0, losses 0 and an empty log, after any sequence of   *)
(* successful logMatch calls run one at a time, recalculateAllStats yields *)
(* for every player the elo, wins and losses the cache held before it ran. *)
C19_ReplayEqualsIncremental ==
    (Recalculated /\ IncrementallyMaintained) =>
        Stats(cachedPlayers) = Stats(last.prePlayers)

----------------------------------------------------------------------------
\* The backend answered a write of the last operation with an error status,
\* or the call rejected
WriteFailed ==
    /\ last.op \in {"logMatch", "deleteMatch"}
    /\ \E k \in 1..Len(last.writes) : last.writes[k].resp # "success"

(* C20: failure of a persistence write is signalled and never silently      *)
(* accepted: if the backend answers an addMatch or updatePlayer request    *)
(* with an error status, or the response is not OK, logMatch reports       *)
(* failure to its caller and does not add the match to cachedMatches or    *)
(* change cachedPlayers; likewise deleteMatch does not drop the match from *)
(* the cache when the backend reports that the delete failed.              *)
C20_WriteFailureSignalled ==
    WriteFailed =>
        /\ ~last.ok
        /\ cachedMatches = last.preMatches
        /\ cachedPlayers = last.prePlayers

----------------------------------------------------------------------------
\* The stats and the log the backend holds, as fetchData would read them
PersistedPlayers == [i \in 1..Len(sheetPlayers) |-> cleanPlayer(sheetPlayers[i])]
PersistedMatches == [i \in 1..Len(sheetMatches) |-> cleanMatch(sheetMatches[i])]

(* C21: recalculation recovers from partial writes: after any history in    *)
(* which a logMatch failed partway through its writes (match row stored,   *)
(* some or no player rows updated), once recalculateAllStats completes     *)
(* without error every player's elo, wins and losses persisted in the      *)
(* backend equal the replay of the match log persisted in the backend.     *)
C21_RecalculationRecovers ==
    Recalculated =>
        Stats(PersistedPlayers) = Stats(recalculate(PersistedPlayers, PersistedMatches))

----------------------------------------------------------------------------
\* The number of cached matches that list id in the group
TimesListed(group, id) ==
    Cardinality({k \in 1..Len(cachedMatches) : Includes(cachedMatches[k][group], id)})

CountersAgreeWithLog ==
    \A i \in 1..Len(cachedPlayers) :
        /\ cachedPlayers[i].wins = TimesListed("winnerIds", cachedPlayers[i].id)
        /\ cachedPlayers[i].losses = TimesListed("loserIds", cachedPlayers[i].id)

(* C22: no update is lost under concurrent mutating operations: starting   *)
(* from a cache whose counters agree with its log, for every interleaving  *)
(* at their await points of logMatch invocations, or of a logMatch with a  *)
(* recalculateAllStats, once all have completed each cached player's wins  *)
(* equal the number of cached matches listing them as winner and losses    *)
(* the number listing them as loser.                                       *)
C22_NoLostUpdate ==
    (last.op = "settle" /\ pending = << >>) => CountersAgreeWithLog

----------------------------------------------------------------------------
\* The last operation was one that needs persistence
NeedsPersistence ==
    \/ last.op \in {"fetchData", "addPlayer", "deleteMatch"}
    \/ last.op = "logMatch" /\ last.error = "none"
    \/ last.op = "recalculateAllStats" /\ Len(last.prePlayers) >= 1

(* C23: with no API URL configured, every operation that needs persistence *)
(* (fetchData, addPlayer, logMatch with valid participants, deleteMatch,   *)
(* recalculateAllStats with at least one player) fails, issues no network  *)
(* request (so none is repeated) and leaves cachedPlayers and              *)
(* cachedMatches unchanged.                                                *)
C23_UnconfiguredFails == (API_URL = "" /\ NeedsPersistence) => NothingDone

C23_Witness ==
    /\ API_URL = ""
    /\ last.op = "logMatch"
    /\ last.error = "none"
    /\ ~last.ok
    /\ Len(cachedMatches) >= 1

----------------------------------------------------------------------------
Fetched == last.op = "fetchData" /\ last.ok

FetchFailed == last.op = "fetchData" /\ ~last.ok

\* The ids of the lists of the cached matches
CachedListIds ==
    UNION {Range(cachedMatches[k].winnerIds) \cup Range(cachedMatches[k].loserIds) :
               k \in 1..Len(cachedMatches)}

\* The numeric fields of the cache are numbers and the id lists are lists
NumbersAndLists ==
    /\ \A i \in 1..Len(cachedPlayers) :
           /\ cachedPlayers[i].elo \in Int
           /\ cachedPlayers[i].wins \in Int
           /\ cachedPlayers[i].losses \in Int
    /\ \A k \in 1..Len(cachedMatches) :
           /\ cachedMatches[k].eloChange \in Int
           /\ cachedMatches[k].winnerIds \in Seq(CachedListIds)
           /\ cachedMatches[k].loserIds \in Seq(CachedListIds)

\* A collection of the body that is no list is cached as the empty list
NonListsEmptied ==
    /\ last.data.players.kind # "list" => cachedPlayers = << >>
    /\ last.data.matches.kind # "list" => cachedMatches = << >>

\* Every id of the cache is a string; the player ids of the cache are
\* the texts String() gives
IdsAreStrings ==
    /\ \A i \in 1..Len(cachedPlayers) :
           \E row \in Range(last.data.players.v) : cachedPlayers[i].id = String(row.id)
    /\ \A k \in 1..Len(cachedMatches) : ~cachedMatches[k].id.num
    /\ \A id \in CachedListIds : ~id.num

(* C24: after fetchData succeeds every cached player has numeric elo, wins *)
(* and losses, every cached match has list-valued winnerIds and loserIds   *)
(* and a numeric eloChange, every id held in the cache (player ids, match  *)
(* ids, the ids inside winnerIds and loserIds) is a string, and a players  *)
(* or matches collection that is not a list is replaced by the empty list; *)
(* if fetchData fails the cache is unchanged.                              *)
C24_CacheCanonical ==
    /\ Fetched => NumbersAndLists /\ NonListsEmptied /\ IdsAreStrings
    /\ FetchFailed => cachedPlayers = last.prePlayers /\ cachedMatches = last.preMatches

----------------------------------------------------------------------------
\* Confirm invoked logMatch
Submitted == last.op = "handleSubmit" /\ last.called

(* C25: every logMatch call issued by the LogMatch screen is well formed:  *)
(* for every sequence of match-type changes, selections, deselections and  *)
(* Back/Next steps, when Confirm invokes logMatch there are exactly 1      *)
(* winner and 1 loser for SINGLES or 2 and 2 for DOUBLES (for the type     *)
(* passed), winnerIds and loserIds share no id, and the score is not       *)
(* blank.                                                                  *)
C25_ScreenCallsWellFormed ==
    Submitted =>
        /\ Cardinality(Range(last.call.winnerIds)) = GroupSize(last.call.type)
        /\ Len(last.call.winnerIds) = GroupSize(last.call.type)
        /\ Cardinality(Range(last.call.loserIds)) = GroupSize(last.call.type)
        /\ Len(last.call.loserIds) = GroupSize(last.call.type)
        /\ Range(last.call.winnerIds) \cap Range(last.call.loserIds) = {}
        /\ \E k \in 1..Len(last.call.score) : last.call.score[k] # " "

\* A doubles match confirmed after an attempt with a blank score
C25_Witness ==
    /\ Submitted
    /\ last.call.type = "DOUBLES"
    /\ screen.error = "Please enter a valid score"

\* The logMatch invocations in flight
InFlight == {i \in 1..Len(pending) : pending[i].op = "logMatch"}

(* C26: the LogMatch screen never has two logMatch invocations in flight:  *)
(* from the moment Confirm starts a submission until that submission       *)
(* fails no second logMatch can be started from the screen (Confirm and    *)
(* Back are disabled while submitting), and a failed submission re-enables *)
(* Confirm so that the match can be retried.                               *)
C26_OneSubmissionInFlight ==
    /\ Cardinality(InFlight) <= 1
    /\ InFlight # {} => screen.step = 3 /\ screen.isSubmitting
    /\ (last.op = "settle" /\ ~last.ok) =>
           /\ InFlight = {}
           /\ screen.step = 3 /\ ~screen.isSubmitting

\* A submission of a doubles match failed
C26_Witness ==
    /\ last.op = "settle" /\ ~last.ok
    /\ screen.matchType = "DOUBLES"
    /\ ~screen.isSubmitting

----------------------------------------------------------------------------
Settled == last.op = "settle" /\ last.of = "logMatch"

(* C27: logMatch updates the cache all-or-nothing: if the match write or   *)
(* any player write throws, cachedPlayers and cachedMatches are exactly as *)
(* they were before the call; otherwise the new match and the updated      *)
(* player stats become visible together, so that no state observable       *)
(* between operations, or between the awaits of one, has the match in      *)
(* cachedMatches without its effect in cachedPlayers or the effect without *)
(* the match.                                                              *)
C27_CacheAllOrNothing ==
    /\ cachedPlayers = logAll(FreshPlayers, cachedMatches)
    /\ (Settled /\ ~last.done) =>
           cachedPlayers = last.prePlayers /\ cachedMatches = last.preMatches
    /\ (Settled /\ last.done) =>
           /\ Len(cachedMatches) = Len(last.preMatches) + 1
           /\ SubSeq(cachedMatches, 1, Len(last.preMatches)) = last.preMatches
           /\ cachedPlayers # last.prePlayers

\* A logMatch threw at a player write, its match row stored, after a
\* logMatch that succeeded
C27_Witness ==
    /\ Settled /\ ~last.ok
    /\ Len(cachedMatches) >= 1
    /\ Len(sheetMatches) > Len(cachedMatches)

----------------------------------------------------------------------------
\* The cached players a list of ids names
Group(ids) == {i \in 1..Len(cachedPlayers) : Includes(ids, cachedPlayers[i].id)}

\* The id lists of the match are disjoint, of the same length, and every id
\* of them is a cached player's
BalancedMatch(m) ==
    /\ Range(m.winnerIds) \cap Range(m.loserIds) = {}
    /\ Len(m.winnerIds) = Len(m.loserIds)
    /\ \A id \in Range(m.winnerIds) \cup Range(m.loserIds) :
           \E i \in 1..Len(cachedPlayers) : Str(cachedPlayers[i].id) = id

BalancedLog == \A k \in 1..Len(cachedMatches) : BalancedMatch(cachedMatches[k])

\* No id list of the log names a player twice
NoRepeatedId ==
    \A k \in 1..Len(cachedMatches) :
        /\ Len(cachedMatches[k].winnerIds) = Cardinality(Group(cachedMatches[k].winnerIds))
        /\ Len(cachedMatches[k].loserIds) = Cardinality(Group(cachedMatches[k].loserIds))

TotalElo(players) == Sum(Elos(players))

Conserved ==
    /\ TotalElo(cachedPlayers) = BaseElo * Len(cachedPlayers)
    /\ TotalElo(recalculate(cachedPlayers, cachedMatches)) = BaseElo * Len(cachedPlayers)

----------------------------------------------------------------------------
\* The replay applies a rating change for the match
IsReplayed(playerMap, m) ==
    LET n == normalizeForReplay(m)
    IN  /\ n.tag = "ok"
        /\ Len(resolve(playerMap, n.winnerIds)) > 0
        /\ Len(resolve(playerMap, n.loserIds)) > 0

\* The rating change the replay applies for the match
AppliedChange(playerMap, m) ==
    LET n == normalizeForReplay(m)
    IN  replayChange(resolve(playerMap, n.winnerIds), resolve(playerMap, n.loserIds))

\* Every match the replay applies stores the change the replay applies
RECURSIVE StoredAsApplied(_, _)
StoredAsApplied(playerMap, matches) ==
    \/ matches = << >>
    \/ /\ IsReplayed(playerMap, Head(matches)) =>
              Head(matches).eloChange = AppliedChange(playerMap, Head(matches))
       /\ StoredAsApplied(replayMatch(playerMap, Head(matches)), Tail(matches))

(* C29: the eloChange stored on a match stays consistent with player       *)
(* ratings: after any sequence of logMatch, deleteMatch and                *)
(* recalculateAllStats run one at a time, once recalculateAllStats has     *)
(* completed every replayed match's stored eloChange (the value shown in   *)
(* match history) equals the rating change the replay applied to that      *)
(* match's participants.                                                   *)
C29_StoredChangeIsApplied ==
    Recalculated =>
        StoredAsApplied(playerMapOf(resetPlayers(last.prePlayers)),
                        sortedMatches(cachedMatches))

----------------------------------------------------------------------------
MenuRecalculated == last.op = "menuRecalculateAllStats"

(* C30: the spreadsheet-menu recalculation and the client recalculation    *)
(* are the same function of the data: for every non-empty player list and  *)
(* every match log (both match shapes, unresolvable ids, numeric or string *)
(* ids), the backend recalculateAllStats and the client                    *)
(* recalculateAllStats produce the same elo, wins and losses for every     *)
(* player.                                                                 *)
C30_MenuEqualsClient ==
    MenuRecalculated =>
        /\ last.threw = replayThrows(last.preMatches)
        /\ ~last.threw =>
               Stats(PersistedPlayers) = Stats(recalculate(last.prePlayers, last.preMatches))

====
